---- MODULE Spec2Model ----
(***************************************************************************)
(* Lighting Architect Pro (src/app.py): the "Generate Layout" handler, the  *)
(* plan acquisition in get_lighting_plan (one call of the generation        *)
(* service, a regular-expression search for the JSON object, json.loads),   *)
(* the two drawing engines, the cheatsheet loop and the helpers              *)
(* get_safe_color and get_clock_pos.                                        *)
(*                                                                         *)
(* A reply text is a sequence of tokens.  A token stands for a run of       *)
(* characters of the reply: a JSON punctuation character, a JSON string     *)
(* literal, a JSON number, or a piece of other text (a word of prose, a     *)
(* code-fence marker, a newline).  Braces occur only as punctuation tokens: *)
(* no string literal and no word of the modelled replies holds a brace.     *)
(* x and y are whole metres, z is in decimetres.                            *)
(***************************************************************************)
EXTENDS Integers, Sequences, FiniteSets, TLC

VARIABLES
    secret,      \* line 15: st.secrets' GEMINI_KEY ("" when not configured)
    api_key,     \* line 15: the credential of this script run ("" when absent)
    style,       \* line 25: the selected style
    pc,          \* position of the script run inside the handler of line 124
    prompt,      \* line 107: the prompt built by get_lighting_plan
    res,         \* line 119: the response of the generation service
    json_match,  \* line 120: the match of the search, or None
    plan,        \* line 129: the plan returned by get_lighting_plan
    page,        \* what the handler has put on the page, in order
    cheatsheet,  \* lines 143-148: the expanders written so far
    figures,     \* lines 75, 100: the figures handed to st.pyplot
    exc,         \* the exception raised in this run (NoExc when none)
    steps        \* the operations this run of the handler has started, in order

vars == <<secret, api_key, style, pc, prompt, res, json_match, plan, page,
          cheatsheet, figures, exc, steps>>

-----------------------------------------------------------------------------
(* Bounds of the model. *)

\* the largest number of light entries in an unwrapped reply
MaxLights == 2

\* the largest number of light entries in a reply wrapped in prose or fences
MaxWrappedLights == 1

-----------------------------------------------------------------------------
(* Reply texts. *)

P(c) == [k |-> "punct", v |-> c]
S(s) == [k |-> "string", v |-> s]
N(n) == [k |-> "number", v |-> n]
W(w) == [k |-> "text", v |-> w]

LBrace == P("{")
RBrace == P("}")
Newline == W("\n")

\* Python's None, and an object with no keys
None == [k |-> "None"]
EmptyDict == <<>>

-----------------------------------------------------------------------------
(* re.search(r"\{.*\}", text, re.DOTALL), line 120: the leftmost match      *)
(* starts at the first opening brace that has a closing brace after it, and *)
(* the greedy .* (with DOTALL it crosses newlines) runs to the last closing *)
(* brace of the text.                                                       *)

Positions(text, tok) == {i \in 1..Len(text) : text[i] = tok}

Min(set) == CHOOSE m \in set : \A n \in set : m <= n
Max(set) == CHOOSE m \in set : \A n \in set : m >= n

\* a faulty variant of re_search: re.match, which is anchored at the start of the text
re_match(text) ==
    IF Len(text) = 0 \/ text[1] # LBrace \/ Positions(text, RBrace) = {}
    THEN None
    ELSE SubSeq(text, 1, Max(Positions(text, RBrace)))

\* a faulty variant of re_search: the non-greedy pattern \{.*?\}
re_search_lazy(text) ==
    LET opens == Positions(text, LBrace)
        closes == Positions(text, RBrace)
    IN  IF opens = {} \/ closes = {} \/ Max(closes) < Min(opens)
        THEN None
        ELSE SubSeq(text, Min(opens), Min({c \in closes : c > Min(opens)}))

re_search(text) ==
    LET opens == Positions(text, LBrace)
        closes == Positions(text, RBrace)
    IN  IF opens = {} \/ closes = {} \/ Max(closes) < Min(opens)
        THEN None
        ELSE SubSeq(text, Min(opens), Max(closes))

-----------------------------------------------------------------------------
(* json.loads, line 121, on a token sequence: a recursive-descent parse of  *)
(*   value  ::= object | array | string | number                            *)
(*   object ::= "{" [ string ":" value { "," string ":" value } ] "}"       *)
(*   array  ::= "[" [ value { "," value } ] "]"                             *)
(* Whitespace between tokens is skipped; anything left after the value is   *)
(* an error ("Extra data").  An object becomes a function on its keys (a    *)
(* later duplicate key wins, as in a Python dict), an array a sequence.     *)

IsWhitespace(tok) == tok = Newline

\* exceptions: the class and str(e)
NoExc == [type |-> "", str |-> ""]
JSONDecodeError == [type |-> "JSONDecodeError", str |-> "Expecting value"]
AttributeError ==
    [type |-> "AttributeError",
     str |-> "'NoneType' object has no attribute 'group'"]
KeyError(key) == [type |-> "KeyError", str |-> key]
ResourceExhausted == [type |-> "ResourceExhausted", str |-> "429 Quota exceeded"]
ServiceUnavailable == [type |-> "ServiceUnavailable", str |-> "503 Unavailable"]

ParseFail == [ok |-> FALSE, val |-> EmptyDict, next |-> 0]
Parsed(v, n) == [ok |-> TRUE, val |-> v, next |-> n]

RECURSIVE ParseValue(_, _), ParseMembers(_, _, _), ParseElements(_, _, _)

ParseValue(s, i) ==
    IF i > Len(s) THEN ParseFail
    ELSE IF s[i] = LBrace
    THEN IF i + 1 <= Len(s) /\ s[i + 1] = RBrace
         THEN Parsed(EmptyDict, i + 2)
         ELSE ParseMembers(s, i + 1, EmptyDict)
    ELSE IF s[i] = P("[")
    THEN IF i + 1 <= Len(s) /\ s[i + 1] = P("]")
         THEN Parsed(<<>>, i + 2)
         ELSE ParseElements(s, i + 1, <<>>)
    ELSE IF s[i].k \in {"string", "number"} THEN Parsed(s[i].v, i + 1)
    ELSE ParseFail

ParseMembers(s, i, acc) ==
    IF i + 1 > Len(s) \/ s[i].k # "string" \/ s[i + 1] # P(":") THEN ParseFail
    ELSE LET r == ParseValue(s, i + 2)
         IN  IF ~r.ok \/ r.next > Len(s) THEN ParseFail
             ELSE LET acc2 == (s[i].v :> r.val) @@ acc
                  IN  IF s[r.next] = RBrace THEN Parsed(acc2, r.next + 1)
                      ELSE IF s[r.next] = P(",")
                      THEN ParseMembers(s, r.next + 1, acc2)
                      ELSE ParseFail

ParseElements(s, i, acc) ==
    LET r == ParseValue(s, i)
    IN  IF ~r.ok \/ r.next > Len(s) THEN ParseFail
        ELSE LET acc2 == Append(acc, r.val)
             IN  IF s[r.next] = P("]") THEN Parsed(acc2, r.next + 1)
                 ELSE IF s[r.next] = P(",")
                 THEN ParseElements(s, r.next + 1, acc2)
                 ELSE ParseFail

\* a faulty variant of json_loads: a failed parse is not reported
json_loads_lenient(text) ==
    LET s == SelectSeq(text, LAMBDA tok : ~IsWhitespace(tok))
    IN  [exc |-> NoExc, val |-> ParseValue(s, 1).val]

json_loads(text) ==
    LET s == SelectSeq(text, LAMBDA tok : ~IsWhitespace(tok))
        r == ParseValue(s, 1)
    IN  IF r.ok /\ r.next = Len(s) + 1
        THEN [exc |-> NoExc, val |-> r.val]
        ELSE [exc |-> JSONDecodeError, val |-> EmptyDict]

\* line 121: json.loads(json_match.group()); None has no group()
group_and_loads(m) ==
    IF m = None THEN [exc |-> AttributeError, val |-> EmptyDict] ELSE json_loads(m)

-----------------------------------------------------------------------------
(* get_safe_color, lines 28-32. *)

\* str(c).lower().strip() on the colour names of the modelled replies
lower_strip(c) == IF c = "Amber" THEN "amber" ELSE c

\* the dict m of line 30
color_aliases ==
    [amber |-> "orange", tungsten |-> "darkorange", warm |-> "orange",
     cool |-> "cyan", daylight |-> "azure"]

\* mcolors.is_color_like on the names that can reach it here
is_color_like(c) == c \in {"orange", "darkorange", "cyan", "azure", "gold", "teal"}

get_safe_color(c) ==
    LET c1 == lower_strip(c)
        r == IF c1 \in DOMAIN color_aliases THEN color_aliases[c1] ELSE c1
    IN  IF is_color_like(r) THEN r ELSE "gold"

-----------------------------------------------------------------------------
(* get_clock_pos, lines 34-39.  Angles are in thousandths of a degree.      *)

\* np.degrees(np.arctan(a / b)) for 0 <= a, b <= 4, rounded to 0.001 degree
ArctanTable ==
    <<0, 0>> :> 0 @@ <<0, 1>> :> 0 @@ <<0, 2>> :> 0 @@ <<0, 3>> :> 0 @@
    <<0, 4>> :> 0 @@ <<1, 0>> :> 90000 @@ <<1, 1>> :> 45000 @@
    <<1, 2>> :> 26565 @@ <<1, 3>> :> 18435 @@ <<1, 4>> :> 14036 @@
    <<2, 0>> :> 90000 @@ <<2, 1>> :> 63435 @@ <<2, 2>> :> 45000 @@
    <<2, 3>> :> 33690 @@ <<2, 4>> :> 26565 @@ <<3, 0>> :> 90000 @@
    <<3, 1>> :> 71565 @@ <<3, 2>> :> 56310 @@ <<3, 3>> :> 45000 @@
    <<3, 4>> :> 36870 @@ <<4, 0>> :> 90000 @@ <<4, 1>> :> 75964 @@
    <<4, 2>> :> 63435 @@ <<4, 3>> :> 53130 @@ <<4, 4>> :> 45000

Abs(n) == IF n < 0 THEN -n ELSE n

\* np.degrees(np.arctan2(dy, dx)), in (-180, 180] degrees
arctan2_degrees(dy, dx) ==
    LET q == ArctanTable[<<Abs(dy), Abs(dx)>>]
    IN  IF dx >= 0 THEN (IF dy >= 0 THEN q ELSE -q)
        ELSE (IF dy >= 0 THEN 180000 - q ELSE q - 180000)

\* the dict clocks of line 37, keys in insertion order
clock_keys == <<90, 60, 30, 0, 330, 300, 270, 240, 210, 180, 150, 120>>
clocks ==
    90 :> 12 @@ 60 :> 1 @@ 30 :> 2 @@ 0 :> 3 @@ 330 :> 4 @@ 300 :> 5 @@
    270 :> 6 @@ 240 :> 7 @@ 210 :> 8 @@ 180 :> 9 @@ 150 :> 10 @@ 120 :> 11

\* min(keys, key=f): the first key, in iteration order, of least f
RECURSIVE min_by_distance(_, _, _)
min_by_distance(keys, angle, best) ==
    IF keys = <<>> THEN best
    ELSE min_by_distance(
             Tail(keys), angle,
             IF Abs(Head(keys) * 1000 - angle) < Abs(best * 1000 - angle)
             THEN Head(keys) ELSE best)

get_clock_pos(lx, ly, sx, sy) ==
    LET dx == lx - sx
        dy == ly - sy
        angle == arctan2_degrees(dy, dx) % 360000
        closest == min_by_distance(Tail(clock_keys), angle, Head(clock_keys))
    IN  clocks[closest]

-----------------------------------------------------------------------------
(* The drawing engines and the cheatsheet loop.  The distances and the tilt *)
(* angle printed in the labels are left out; which keys of a light entry    *)
(* are read, in which order, and what follows a missing key are kept.       *)

\* dict.get(key, default)
get(d, key, default) == IF key \in DOMAIN d THEN d[key] ELSE default

\* the first key of `keys` that d[key] fails on, "" when none does
RECURSIVE first_missing(_, _)
first_missing(d, keys) ==
    IF keys = <<>> THEN ""
    ELSE IF Head(keys) \notin DOMAIN d THEN Head(keys)
    ELSE first_missing(d, Tail(keys))

\* the subject of lines 47, 82 and 136
sub_x(rw) == rw \div 2
sub_y(rd) == (rd * 6) \div 10

\* lines 57-73: one marker per light; a KeyError leaves the loop
RECURSIVE draw_2d_lights(_, _, _)
draw_2d_lights(lights, sy, fig) ==
    IF lights = <<>> THEN [exc |-> NoExc, fig |-> fig]
    ELSE LET l == Head(lights)
             col == get_safe_color(get(l, "color", "gold"))
             missing == first_missing(l, <<"x", "y", "id">>)
         IN  IF missing # "" THEN [exc |-> KeyError(missing), fig |-> fig]
             ELSE draw_2d_lights(
                      Tail(lights), sy,
                      Append(fig, [id |-> l.id, color |-> col, x |-> l.x,
                                   y |-> l.y,
                                   va |-> IF l.y < sy THEN "bottom" ELSE "top"]))

draw_2d(data, rw, rd) == draw_2d_lights(get(data, "lights", <<>>), sub_y(rd), <<>>)

\* lines 86-97
RECURSIVE draw_3d_lights(_, _)
draw_3d_lights(lights, fig) ==
    IF lights = <<>> THEN [exc |-> NoExc, fig |-> fig]
    ELSE LET l == Head(lights)
             col == get_safe_color(get(l, "color", "gold"))
             missing == first_missing(l, <<"x", "y", "z", "id">>)
         IN  IF missing # "" THEN [exc |-> KeyError(missing), fig |-> fig]
             ELSE draw_3d_lights(
                      Tail(lights),
                      Append(fig, [id |-> l.id, color |-> col, x |-> l.x,
                                   y |-> l.y, z |-> l.z]))

draw_3d(data, rw, rd, rh) == draw_3d_lights(get(data, "lights", <<>>), <<>>)

\* lines 138-148: one expander per light
RECURSIVE cheatsheet_lights(_, _, _, _)
cheatsheet_lights(lights, sx, sy, out) ==
    IF lights = <<>> THEN [exc |-> NoExc, out |-> out]
    ELSE LET l == Head(lights)
             missing == first_missing(l, <<"x", "y", "z", "id">>)
         IN  IF missing # "" THEN [exc |-> KeyError(missing), out |-> out]
             ELSE cheatsheet_lights(
                      Tail(lights), sx, sy,
                      Append(out,
                             [id |-> l.id,
                              strength |-> get(l, "strength", 50),
                              clock |-> get_clock_pos(l.x, l.y, sx, sy),
                              height |-> l.z,
                              aiming |-> get(l, "aiming", "Aim at subject."),
                              logic |-> get(l, "logic",
                                            "Separates subject from background.")]))

-----------------------------------------------------------------------------
(* The replies of the generation service.  A reply is a body (the text of a *)
(* JSON object, a truncated one, or prose) between a prefix and a suffix.   *)

\* the light entries a reply is written from, with every key of the schema
Fixtures ==
    << [id |-> "Key", x |-> 1, y |-> 1, z |-> 20, color |-> "Amber",
        strength |-> 80, aiming |-> "Aim at the face.",
        logic |-> "Main source."],
       [id |-> "Rim", x |-> 6, y |-> 2, z |-> 10, color |-> "neon",
        strength |-> 30, aiming |-> "Aim at the shoulders.",
        logic |-> "Edge light."] >>

\* the keys an entry is written with
RequiredKeys == <<"id", "x", "y">>
Shapes ==
    { <<"id", "x", "y", "z", "color", "strength", "aiming", "logic">>,
      <<"id", "x", "y", "z">>,
      RequiredKeys,
      <<"x", "y", "z">>,
      <<"id", "y", "z">>,
      <<"id", "x", "z">> }

NumberKeys == {"x", "y", "z", "strength"}

RECURSIVE MembersText(_, _)
MembersText(obj, keys) ==
    IF keys = <<>> THEN <<>>
    ELSE LET key == Head(keys)
             val == IF key \in NumberKeys THEN N(obj[key]) ELSE S(obj[key])
         IN  <<S(key), P(":"), val>>
             \o (IF Len(keys) > 1 THEN <<P(",")>> ELSE <<>>)
             \o MembersText(obj, Tail(keys))

ObjectText(obj, keys) == <<LBrace>> \o MembersText(obj, keys) \o <<RBrace>>

\* specs: a sequence of <<fixture number, shape>>
RECURSIVE ElementsText(_)
ElementsText(specs) ==
    IF specs = <<>> THEN <<>>
    ELSE ObjectText(Fixtures[Head(specs)[1]], Head(specs)[2])
         \o (IF Len(specs) > 1 THEN <<P(",")>> ELSE <<>>)
         \o ElementsText(Tail(specs))

ArrayText(specs) == <<P("[")>> \o ElementsText(specs) \o <<P("]")>>

ReflectorsText ==
    <<P("[")>> \o ObjectText([id |-> "Whiteboard", x |-> 1, y |-> 2], RequiredKeys)
    \o <<P("]")>>

\* the text of the top-level key of a reply
TopText(key, specs) ==
    <<S(key), P(":")>>
    \o (IF key = "style" THEN <<S("Noir")>>
        ELSE IF key = "lights" THEN ArrayText(specs)
        ELSE ReflectorsText)

RECURSIVE TopMembersText(_, _)
TopMembersText(keys, specs) ==
    IF keys = <<>> THEN <<>>
    ELSE TopText(Head(keys), specs)
         \o (IF Len(keys) > 1 THEN <<P(",")>> ELSE <<>>)
         \o TopMembersText(Tail(keys), specs)

PlanText(keys, specs) == <<LBrace>> \o TopMembersText(keys, specs) \o <<RBrace>>

LightSpecs == (1..Len(Fixtures)) \X Shapes
LightLists(n) == UNION {[1..m -> LightSpecs] : m \in 0..n}

JsonTexts(n) ==
    {PlanText(<<"style", "lights", "reflectors">>, ls) : ls \in LightLists(n)}
    \cup {PlanText(<<"lights">>, ls) : ls \in LightLists(n)}
    \cup {PlanText(<<"style", "reflectors">>, <<>>), PlanText(<<>>, <<>>)}

\* a reply cut off before its end
TruncatedTexts ==
    LET whole == {PlanText(<<"style", "lights", "reflectors">>,
                           <<<<1, RequiredKeys>>>>),
                  PlanText(<<"lights">>, <<>>)}
    IN  UNION {{SubSeq(t, 1, n) : n \in 1..(Len(t) - 1)} : t \in whole}

ProseTexts == {<<W("Sorry, I cannot help with that.")>>}

Bodies(n) ==
    {[kind |-> "json", text |-> t] : t \in JsonTexts(n)}
    \cup {[kind |-> "truncated", text |-> t] : t \in TruncatedTexts}
    \cup {[kind |-> "prose", text |-> t] : t \in ProseTexts}

\* a code-fence marker (three backquotes), bare and with a language tag
Fence == W("[fence]")
FenceJson == W("[fence]json")

NoWrapper == [name |-> "none", prefix |-> <<>>, suffix |-> <<>>]
Wrappers ==
    { [name |-> "fence", prefix |-> <<FenceJson, Newline>>,
       suffix |-> <<Newline, Fence>>],
      [name |-> "fence", prefix |-> <<Fence, Newline>>,
       suffix |-> <<Newline, Fence>>],
      [name |-> "prose", prefix |-> <<W("I think this works:")>>,
       suffix |-> <<W("Hope it helps!")>>],
      [name |-> "braces before",
       prefix |-> <<W("Following the schema"), LBrace, RBrace, W(":")>>,
       suffix |-> <<>>],
      [name |-> "braces after", prefix |-> <<>>,
       suffix |-> <<W("Notes:"), LBrace, RBrace>>] }

Reply(w, b) ==
    [kind |-> b.kind, wrapper |-> w.name, prefix |-> w.prefix, body |-> b.text,
     suffix |-> w.suffix]

Replies ==
    {Reply(NoWrapper, b) : b \in Bodies(MaxLights)}
    \cup {Reply(w, b) : w \in Wrappers, b \in Bodies(MaxWrappedLights)}

NoReply == Reply(NoWrapper, [kind |-> "none", text |-> <<>>])

\* res.text
res_text(r) == r.prefix \o r.body \o r.suffix

-----------------------------------------------------------------------------
(* The script.  One run of the "Generate Layout" handler (lines 124-150)    *)
(* goes through the positions of pc; every other interaction with a widget  *)
(* reruns the script with the button not pressed, which clears the page.    *)

StyleOptions == {"Cinematic Moody", "Clean & Professional", "High-Contrast Noir"}
KeyInputs == {"", "typed-key"}
Secrets == {"", "secret-key"}

\* lines 20-22 and 24: the room and the gear of this session
r_w == 4
r_d == 5
r_h == 3
gear == "100W COB light, 20W Stick light, 80cm Whiteboard"

Item(widget, text) == [widget |-> widget, text |-> text]

\* f"Error: {e}", line 150
ErrorText(e) == <<"Error: ", e.str>>

NoPrompt == [w |-> 0, d |-> 0, h |-> 0, sx |-> 0, sy |-> 0, gear |-> "", style |-> ""]
NoFigures == [d2 |-> <<>>, d3 |-> <<>>]

Init ==
    /\ secret \in Secrets
    /\ api_key = secret
    /\ style = "Cinematic Moody"
    /\ pc = "idle"
    /\ prompt = NoPrompt
    /\ res = NoReply
    /\ json_match = None
    /\ plan = None
    /\ page = <<>>
    /\ cheatsheet = <<>>
    /\ figures = NoFigures
    /\ exc = NoExc
    /\ steps = <<>>

Cleared ==
    /\ prompt' = NoPrompt
    /\ res' = NoReply
    /\ json_match' = None
    /\ plan' = None
    /\ cheatsheet' = <<>>
    /\ figures' = NoFigures
    /\ exc' = NoExc
    /\ steps' = <<>>

\* lines 15, 25: the user types a key (the input exists when no secret is
\* configured) or selects a style; the script reruns
ChangeInputs ==
    /\ pc = "idle"
    /\ \E k \in KeyInputs, s \in StyleOptions :
        /\ api_key' = IF secret # "" THEN secret ELSE k
        /\ style' = s
    /\ page' = <<>>
    /\ Cleared
    /\ UNCHANGED <<secret, pc>>

\* a faulty variant of Click: the credential is not checked
Click_unguarded ==
    /\ pc = "idle"
    /\ Cleared
    /\ page' = <<>>
    /\ pc' = "prompt"
    /\ UNCHANGED <<secret, api_key, style>>

\* lines 124-127: the button is pressed
Click ==
    /\ pc = "idle"
    /\ Cleared
    /\ IF api_key = ""
       THEN /\ page' = <<Item("error", <<"Enter API Key">>)>>
            /\ pc' = "idle"
       ELSE /\ page' = <<>>
            /\ pc' = "prompt"
    /\ UNCHANGED <<secret, api_key, style>>

\* lines 104-118: get_lighting_plan builds the prompt
BuildPrompt ==
    /\ pc = "prompt"
    /\ prompt' = [w |-> r_w, d |-> r_d, h |-> r_h, sx |-> sub_x(r_w),
                  sy |-> sub_y(r_d), gear |-> gear, style |-> style]
    /\ steps' = Append(steps, "prompt")
    /\ pc' = "generate"
    /\ UNCHANGED <<secret, api_key, style, res, json_match, plan, page,
                   cheatsheet, figures, exc>>

\* line 119: the one call of the service, which replies or raises
Generate ==
    /\ pc = "generate"
    /\ steps' = Append(steps, "generate_content")
    /\ \/ /\ res' \in Replies
          /\ pc' = "search"
          /\ exc' = exc
       \/ /\ exc' \in {ResourceExhausted, ServiceUnavailable}
          /\ pc' = "except"
          /\ res' = res
    /\ UNCHANGED <<secret, api_key, style, prompt, json_match, plan, page,
                   cheatsheet, figures>>

\* line 120
Search ==
    /\ pc = "search"
    /\ json_match' = re_search(res_text(res))
    /\ steps' = Append(steps, "search")
    /\ pc' = "loads"
    /\ UNCHANGED <<secret, api_key, style, prompt, res, plan, page, cheatsheet,
                   figures, exc>>

\* a faulty variant of Loads: a reply that does not parse is asked for again
Loads_reprompt ==
    /\ pc = "loads"
    /\ LET r == group_and_loads(json_match)
       IN  /\ steps' = IF json_match = None THEN steps ELSE Append(steps, "loads")
           /\ exc' = NoExc
           /\ IF r.exc = NoExc
              THEN plan' = r.val /\ pc' = "draw_2d"
              ELSE plan' = plan /\ pc' = "generate"
    /\ UNCHANGED <<secret, api_key, style, prompt, res, json_match, page,
                   cheatsheet, figures>>

\* line 121: json_match.group() and json.loads
Loads ==
    /\ pc = "loads"
    /\ LET r == group_and_loads(json_match)
       IN  /\ steps' = IF json_match = None THEN steps ELSE Append(steps, "loads")
           /\ exc' = r.exc
           /\ IF r.exc = NoExc
              THEN plan' = r.val /\ pc' = "draw_2d"
              ELSE plan' = plan /\ pc' = "except"
    /\ UNCHANGED <<secret, api_key, style, prompt, res, json_match, page,
                   cheatsheet, figures>>

\* line 131
Draw2d ==
    /\ pc = "draw_2d"
    /\ steps' = Append(steps, "draw_2d")
    /\ LET r == draw_2d(plan, r_w, r_d)
       IN  /\ exc' = r.exc
           /\ IF r.exc = NoExc
              THEN /\ page' = page \o <<Item("subheader", <<"2D Setup Map">>),
                                       Item("pyplot", <<"2d">>)>>
                   /\ figures' = [figures EXCEPT !.d2 = r.fig]
                   /\ pc' = "draw_3d"
              ELSE /\ page' = Append(page, Item("subheader", <<"2D Setup Map">>))
                   /\ figures' = figures
                   /\ pc' = "except"
    /\ UNCHANGED <<secret, api_key, style, prompt, res, json_match, plan,
                   cheatsheet>>

\* line 132
Draw3d ==
    /\ pc = "draw_3d"
    /\ steps' = Append(steps, "draw_3d")
    /\ LET r == draw_3d(plan, r_w, r_d, r_h)
       IN  /\ exc' = r.exc
           /\ IF r.exc = NoExc
              THEN /\ page' = page \o <<Item("subheader", <<"3D Perspective View">>),
                                       Item("pyplot", <<"3d">>)>>
                   /\ figures' = [figures EXCEPT !.d3 = r.fig]
                   /\ pc' = "cheatsheet"
              ELSE /\ page' = Append(page,
                                     Item("subheader", <<"3D Perspective View">>))
                   /\ figures' = figures
                   /\ pc' = "except"
    /\ UNCHANGED <<secret, api_key, style, prompt, res, json_match, plan,
                   cheatsheet>>

\* lines 134-148
Cheatsheet ==
    /\ pc = "cheatsheet"
    /\ steps' = Append(steps, "cheatsheet")
    /\ page' = page \o <<Item("divider", <<>>),
                         Item("header", <<"Setup Cheatsheet">>)>>
    /\ LET r == cheatsheet_lights(get(plan, "lights", <<>>), sub_x(r_w),
                                  sub_y(r_d), <<>>)
       IN  /\ cheatsheet' = r.out
           /\ exc' = r.exc
           /\ pc' = IF r.exc = NoExc THEN "idle" ELSE "except"
    /\ UNCHANGED <<secret, api_key, style, prompt, res, json_match, plan,
                   figures>>

\* lines 149-150
Except ==
    /\ pc = "except"
    /\ page' = Append(page, Item("error", ErrorText(exc)))
    /\ pc' = "idle"
    /\ UNCHANGED <<secret, api_key, style, prompt, res, json_match, plan,
                   cheatsheet, figures, exc, steps>>

Next ==
    \/ ChangeInputs
    \/ Click
    \/ BuildPrompt
    \/ Generate
    \/ Search
    \/ Loads
    \/ Draw2d
    \/ Draw3d
    \/ Cheatsheet
    \/ Except

Spec == Init /\ [][Next]_vars

-----------------------------------------------------------------------------
(* Properties. *)

Pipeline ==
    <<"prompt", "generate_content", "search", "loads", "draw_2d", "draw_3d",
      "cheatsheet">>

Did(op) == \E i \in DOMAIN steps : steps[i] = op
Count(op) == Cardinality({i \in DOMAIN steps : steps[i] = op})
IsPrefix(s, t) == Len(s) <= Len(t) /\ s = SubSeq(t, 1, Len(s))

HasBrace(text) == Positions(text, LBrace) \cup Positions(text, RBrace) # {}

\* the search of line 120 has run on the reply
Searched == res # NoReply /\ pc \notin {"generate", "search"}

\* line 121 has returned a plan
Loaded == plan # None

\* a run of the handler with a credential has ended
RunEnded == pc = "idle" /\ api_key # "" /\ page # <<>>

PlanLights == get(plan, "lights", <<>>)

\* C1 as stated: for a reply prefix + json_text + suffix whose prefix and
\* suffix hold no unbalanced brace (balanced pairs allowed), the substring
\* handed to json.loads is json_text.
C1_ExtractsJsonTextBalanced ==
    (Searched /\ res.kind = "json") => json_match = res.body

\* C1 amended: for a reply prefix + json_text + suffix whose prefix and suffix
\* hold no brace at all, the substring handed to json.loads is json_text.
C1_ExtractsJsonTextNoBraces ==
    (Searched /\ res.kind = "json" /\ ~HasBrace(res.prefix) /\ ~HasBrace(res.suffix))
        => json_match = res.body

C1_Witness ==
    /\ Searched
    /\ res.kind = "json"
    /\ res.wrapper = "prose"
    /\ Len(res.body) > 2
    /\ json_match = res.body

\* C2: when every light entry of the reply carries id, x and y and omits z,
\* strength, color and logic, the run ends with both diagrams and the
\* checklist done, no error, and the defaults (z = 1.5 m, strength = 50, a
\* default rationale) in every checklist entry.
C2_OptionalFieldsDefaulted ==
    (RunEnded /\ Loaded
     /\ \A i \in DOMAIN PlanLights : DOMAIN PlanLights[i] = {"id", "x", "y"})
        => /\ exc = NoExc
           /\ steps = Pipeline
           /\ Len(cheatsheet) = Len(PlanLights)
           /\ \A i \in DOMAIN cheatsheet :
                /\ cheatsheet[i].strength = 50
                /\ cheatsheet[i].height = 15
                /\ cheatsheet[i].logic = "Separates subject from background."

\* C3: whenever a renderer has been started on a plan, every light entry of
\* that plan has id, x, y and a z value.
C3_RenderedPlanIsResolved ==
    (Did("draw_2d") \/ Did("draw_3d") \/ Did("cheatsheet"))
        => \A i \in DOMAIN PlanLights :
             {"id", "x", "y", "z"} \subseteq DOMAIN PlanLights[i]

\* C4: for a syntactically invalid reply (truncated JSON or prose, no brace
\* around it) get_lighting_plan fails with the extraction error (no match:
\* AttributeError) or the parse error (a match that is not JSON:
\* JSONDecodeError), no renderer is started, the handler catches the error,
\* shows it and leaves the button ready to be pressed again.
InvalidReply ==
    /\ res.kind \in {"truncated", "prose"}
    /\ ~HasBrace(res.prefix)
    /\ ~HasBrace(res.suffix)

C4_InvalidReplyFailsCleanly ==
    InvalidReply =>
        /\ pc \in {"search", "loads", "except", "idle"}
        /\ ~Did("draw_2d") /\ ~Did("draw_3d") /\ ~Did("cheatsheet")
        /\ plan = None /\ figures = NoFigures /\ cheatsheet = <<>>
        /\ pc \in {"except", "idle"} =>
             /\ exc = IF json_match = None THEN AttributeError ELSE JSONDecodeError
             /\ res.kind = "prose" => exc = AttributeError
        /\ pc = "idle" =>
             /\ page = <<Item("error", ErrorText(exc))>>
             /\ ENABLED Click

C4_Witness ==
    /\ InvalidReply
    /\ res.kind = "truncated"
    /\ pc = "idle"
    /\ exc = JSONDecodeError
    /\ page = <<Item("error", ErrorText(JSONDecodeError))>>

\* C5: with no API key the handler shows the blocking message and builds no
\* prompt, calls no service and starts no renderer.
C5_NoCredentialNoCall ==
    api_key = "" =>
        /\ pc = "idle"
        /\ steps = <<>>
        /\ prompt = NoPrompt
        /\ res = NoReply
        /\ plan = None /\ figures = NoFigures /\ cheatsheet = <<>>
        /\ page \in {<<>>, <<Item("error", <<"Enter API Key">>)>>}

C5_Witness ==
    /\ api_key = ""
    /\ pc = "idle"
    /\ page = <<Item("error", <<"Enter API Key">>)>>
    /\ steps = <<>>

\* C6 as stated: a run with a credential performs, in order, exactly one
\* prompt build, exactly one service call, one extract/parse pass and at most
\* one render pass.
C6_OneOfEachIncludingParse ==
    /\ IsPrefix(steps, Pipeline)
    /\ RunEnded =>
         /\ Count("prompt") = 1
         /\ Count("generate_content") = 1
         /\ Count("search") = 1

\* C6 amended: the operations of a run are started in the order prompt build,
\* service call, search, parse, 2D drawing, 3D drawing, cheatsheet, each at
\* most once; a run with a credential builds exactly one prompt and calls the
\* service exactly once, and makes one extract/parse pass when the call
\* returned a reply and none when it raised.
C6_StrictPipelineNoSecondCall ==
    /\ IsPrefix(steps, Pipeline)
    /\ RunEnded =>
         /\ Count("prompt") = 1
         /\ Count("generate_content") = 1
         /\ Count("search") = IF res = NoReply THEN 0 ELSE 1

C6_Witness ==
    /\ RunEnded
    /\ exc = ResourceExhausted
    /\ steps = <<"prompt", "generate_content">>

\* C7: the message shown for a failed run has a form that sets a quota
\* failure and a malformed-output failure apart from a generic failure.
MessageForm(item) == Head(item.text)
GenericForm == MessageForm(Item("error", ErrorText(ServiceUnavailable)))

C7_MessageKindDistinguishesFailures ==
    (RunEnded /\ exc.type \in {"ResourceExhausted", "AttributeError",
                               "JSONDecodeError", "KeyError"})
        => /\ page[Len(page)].widget = "error"
           /\ MessageForm(page[Len(page)]) # GenericForm

\* C8: a plan returned by get_lighting_plan has a style (the requested one when
\* the reply has none), a light sequence and a reflector sequence, empty when
\* the reply has none.
C8_MissingTopLevelKeysNormalized ==
    Loaded =>
        /\ {"style", "lights", "reflectors"} \subseteq DOMAIN plan
        /\ plan.style \in {style, "Noir"}

\* C9: a JSON object wrapped in code-fence markers, with or without a language
\* tag, yields the plan that the unwrapped JSON text yields; and the plan of a
\* run is decided by the reply text alone, whatever the key, the style and the
\* runs before it, so the same text gives the same plan again.
C9_FencedReplySamePlan ==
    /\ (res.kind = "json" /\ res.wrapper = "fence"
        /\ pc \notin {"generate", "search", "loads"})
           => /\ exc.type \notin {"AttributeError", "JSONDecodeError"}
              /\ plan = group_and_loads(re_search(res.body)).val
    /\ Loaded => plan = group_and_loads(re_search(res_text(res))).val

C9_Witness ==
    /\ res.kind = "json"
    /\ res.wrapper = "fence"
    /\ res.prefix = <<FenceJson, Newline>>
    /\ pc = "draw_2d"
    /\ Len(PlanLights) > 0
    /\ plan = group_and_loads(re_search(res.body)).val

\* C10: the clock hour of every checklist entry is an hour whose direction is
\* nearest, on the circle, to the bearing of the light from the subject.
CircularDistance(a, b) ==
    LET d == Abs(a - b) % 360000
    IN  IF d <= 360000 - d THEN d ELSE 360000 - d

HourDirection(h) == CHOOSE key \in DOMAIN clocks : clocks[key] = h

C10_ClockIsNearestHourOnCircle ==
    (Did("cheatsheet") /\ Len(cheatsheet) = Len(PlanLights)) =>
        \A i \in DOMAIN cheatsheet :
            LET l == PlanLights[i]
                bearing == arctan2_degrees(l.y - sub_y(r_d), l.x - sub_x(r_w)) % 360000
                mine == CircularDistance(HourDirection(cheatsheet[i].clock) * 1000,
                                         bearing)
            IN  \A key \in DOMAIN clocks :
                    mine <= CircularDistance(key * 1000, bearing)

====
